---- MODULE Spec2Model ----
(***************************************************************************)
(* Model of package signer (src/signer.go): a Signer seals a message into  *)
(* a token  Version || nonce || AEAD-Seal(nonce, msg, ad = header)  and    *)
(* Verify opens it again.                                                  *)
(*                                                                         *)
(* The XChaCha20-Poly1305 primitive and crypto/rand are libraries outside  *)
(* the package.  They are modelled by their contract: a keyed stream       *)
(* cipher whose output has the length of its input, followed by a 16-byte  *)
(* tag over (key, nonce, associated data, ciphertext) which changes with   *)
(* every single-bit change of one of its inputs, and a random source that  *)
(* either fills the buffer or reports an error.                            *)
(***************************************************************************)
EXTENDS Integers, Sequences, FiniteSets, TLC

\* ------------------------------------------------------------------ bounds
\* Longest message the sequential caller signs.
MaxMsgLen == 1
\* Number of goroutines that share one Signer in the concurrent specification.
NumProcs == 2

\* --------------------------------------------------------------- constants
Version == 65
NonceSize == 24
hdrSize == 1 + NonceSize
KeySize == 32
TagSize == 16

ErrKeyLen == "bad key length"
ErrShort == "message too short"
\* errors of the libraries
NoErr == "nil"
ErrBadKeyLength == "chacha20poly1305: bad key length"
ErrOpen == "chacha20poly1305: message authentication failed"
ErrRand == "crypto/rand: read failed"

\* ----------------------------------------------------------------- helpers
Min(a, b) == IF a < b THEN a ELSE b

Zeros(n) == [i \in 1..n |-> 0]

\* b[lo:hi] of Go (0-based, hi exclusive) on a 1-based sequence
Slice(b, lo, hi) == SubSeq(b, lo + 1, hi)

\* sum of b[j] * (2j+1) over the bytes of b
RECURSIVE WSum(_, _)
WSum(b, j) == IF j > Len(b) THEN 0 ELSE (2 * j + 1) * b[j] + WSum(b, j + 1)

\* the byte x with bit k (0..7) inverted
FlipByte(x, k) == IF (x \div (2 ^ k)) % 2 = 1 THEN x - 2 ^ k ELSE x + 2 ^ k

\* the byte string b with bit pos (0 .. 8*Len(b)-1) inverted
FlipBit(b, pos) ==
    [i \in 1..Len(b) |-> IF i = (pos \div 8) + 1 THEN FlipByte(b[i], pos % 8) ELSE b[i]]

\* ------------------------------------------------ the AEAD and the CSPRNG
\* keystream byte j under (key, nonce)
KeyStream(key, nonce, j) ==
    (key[((j - 1) % KeySize) + 1] + nonce[((j - 1) % NonceSize) + 1] + j) % 256

Encrypt(key, nonce, pt) ==
    [j \in 1..Len(pt) |-> (pt[j] + KeyStream(key, nonce, j)) % 256]

Decrypt(key, nonce, ct) ==
    [j \in 1..Len(ct) |-> (ct[j] + 256 - KeyStream(key, nonce, j)) % 256]

\* the tag over (key, nonce, ad, ct)
Tag(key, nonce, ad, ct) ==
    LET body == WSum(ad, 1) + WSum(ct, 1) + 5 * Len(ad) + 11 * Len(ct)
    IN  [i \in 1..TagSize |->
            (key[i] + 3 * key[i + TagSize] + 2 * nonce[i] + 2 * nonce[i + 8]
               + (2 * i + 1) * body + i) % 256]

\* cipher.AEAD.Seal(nil, nonce, plaintext, ad); panics on a nonce of another size
SealPanics(nonce) == Len(nonce) # NonceSize

Seal(key, nonce, pt, ad) ==
    LET ct == Encrypt(key, nonce, pt)
    IN  ct \o Tag(key, nonce, ad, ct)

\* cipher.AEAD.Open(nil, nonce, sealed, ad): the plaintext, or ErrOpen and nothing
Open(key, nonce, sealed, ad) ==
    IF Len(sealed) < TagSize
    THEN [msg |-> <<>>, err |-> ErrOpen]
    ELSE LET ct == Slice(sealed, 0, Len(sealed) - TagSize)
             tag == Slice(sealed, Len(sealed) - TagSize, Len(sealed))
         IN  IF Tag(key, nonce, ad, ct) = tag
             THEN [msg |-> Decrypt(key, nonce, ct), err |-> NoErr]
             ELSE [msg |-> <<>>, err |-> ErrOpen]

\* chacha20poly1305.NewX(key): the cipher (held as its key), or the library's error
NewX(key) ==
    IF Len(key) = KeySize
    THEN [aead |-> key, err |-> NoErr]
    ELSE [aead |-> <<>>, err |-> ErrBadKeyLength]

\* ------------------------------------------------------------ the package
\* the zero Signer: what a nil *Signer slot and a fresh Signer's temporaries hold
NoSigner == [built |-> FALSE, aead |-> <<>>, n |-> 0, p |-> Zeros(hdrSize)]

\* New with the cipher keyed from a fresh zero buffer of the key's length
New_zeroKey(key) ==
    LET r == NewX(Zeros(Len(key)))
    IN  IF r.err # NoErr
        THEN [s |-> NoSigner, err |-> r.err]
        ELSE [s |-> [NoSigner EXCEPT !.built = TRUE, !.aead = r.aead], err |-> NoErr]

\* New(key): &Signer{aead: aead}, or no Signer and NewX's error
New(key) ==
    LET r == NewX(key)
    IN  IF r.err # NoErr
        THEN [s |-> NoSigner, err |-> r.err]
        ELSE [s |-> [NoSigner EXCEPT !.built = TRUE, !.aead = r.aead], err |-> NoErr]

\* put with s.n = copy(...) in place of s.n += copy(...)
put_assign(s, b) ==
    LET k == Min(Len(b), hdrSize - s.n)
    IN  [s EXCEPT !.p = [i \in 1..hdrSize |->
                            IF i > s.n /\ i <= s.n + k THEN b[i - s.n] ELSE s.p[i]],
                  !.n = k]

\* (s *Signer) put(p): s.n += copy(s.p[s.n:], p)
put(s, b) ==
    LET k == Min(Len(b), hdrSize - s.n)
    IN  [s EXCEPT !.p = [i \in 1..hdrSize |->
                            IF i > s.n /\ i <= s.n + k THEN b[i - s.n] ELSE s.p[i]],
                  !.n = s.n + k]

\* (s Signer) sign(msg, nonce), run on its own copy s of the Signer
sign(s, msg, nonce) ==
    LET s1 == put(s, <<Version>>)
        s2 == put(s1, nonce)
        hdr == Slice(s2.p, 0, s2.n)
    IN  hdr \o Seal(s2.aead, nonce, msg, hdr)

\* mknonce dropping rand.Read's error
mknonce_noerr(rnd) ==
    [p |-> rnd.b, err |-> NoErr]

\* mknonce() for one outcome rnd of rand.Read: the buffer and rand.Read's error
mknonce(rnd) ==
    [p |-> rnd.b, err |-> IF rnd.ok THEN NoErr ELSE ErrRand]

\* Verify authenticating Version || nonce in place of the token's own header
Verify_ownVersion(s, c) ==
    IF Len(c) < hdrSize
    THEN [msg |-> <<>>, err |-> ErrShort, opened |-> FALSE]
    ELSE LET n == hdrSize
             ae == Slice(c, n, Len(c))
             nonce == Slice(c, 1, n)
             r == Open(s.aead, nonce, ae, <<Version>> \o nonce)
         IN  [msg |-> r.msg, err |-> r.err, opened |-> TRUE]

\* Verify refusing a token whose byte 0 is not Version
Verify_checkVersion(s, c) ==
    IF Len(c) < hdrSize
    THEN [msg |-> <<>>, err |-> ErrShort, opened |-> FALSE]
    ELSE IF c[1] # Version
    THEN [msg |-> <<>>, err |-> "bad version", opened |-> FALSE]
    ELSE LET n == hdrSize
             ae == Slice(c, n, Len(c))
             ad == Slice(c, 0, n)
             nonce == Slice(ad, 1, Len(ad))
             r == Open(s.aead, nonce, ae, ad)
         IN  [msg |-> r.msg, err |-> r.err, opened |-> TRUE]

\* Verify comparing len(c) with NonceSize: a 24-byte input reaches the slicing
Verify_lenNonce(s, c) ==
    IF Len(c) < NonceSize
    THEN [msg |-> <<>>, err |-> ErrShort, opened |-> FALSE]
    ELSE IF Len(c) < hdrSize
    THEN [msg |-> <<>>, err |-> "panic: slice bounds out of range", opened |-> FALSE]
    ELSE LET n == hdrSize
             ae == Slice(c, n, Len(c))
             ad == Slice(c, 0, n)
             nonce == Slice(ad, 1, Len(ad))
             r == Open(s.aead, nonce, ae, ad)
         IN  [msg |-> r.msg, err |-> r.err, opened |-> TRUE]

\* (s *Signer) Verify(c)
Verify(s, c) ==
    IF Len(c) < hdrSize
    THEN [msg |-> <<>>, err |-> ErrShort, opened |-> FALSE]
    ELSE LET n == hdrSize
             ae == Slice(c, n, Len(c))
             ad == Slice(c, 0, n)
             nonce == Slice(ad, 1, Len(ad))
             r == Open(s.aead, nonce, ae, ad)
         IN  [msg |-> r.msg, err |-> r.err, opened |-> TRUE]

\* ------------------------------------------------------------------ inputs
Slots == {"A", "B"}
Procs == 1..NumProcs

K0 == Zeros(KeySize)
K1 == [i \in 1..KeySize |-> i]
Keys == {K0, K1}
KeyArgs == Keys \cup {Zeros(0), Zeros(KeySize - 1), Zeros(KeySize + 1)}

MsgBytes == {104, 255}
Msgs == UNION {[1..n -> MsgBytes] : n \in 0..MaxMsgLen}
ConcMsgs == {<<>>, <<104>>}

N0 == Zeros(NonceSize)
N1 == [i \in 1..NonceSize |-> i]
Nonces == {N0, N1}
NilNonce == [given |-> FALSE, b |-> <<>>]
\* nil, the 24-byte nonces, and one non-nil nonce of a wrong size
NonceArgs == {NilNonce} \cup {[given |-> TRUE, b |-> x] : x \in Nonces \cup {Zeros(NonceSize - 1)}}
ConcNonceArgs == {NilNonce, [given |-> TRUE, b |-> N0]}

\* what rand.Read may do to the buffer
RandOutcomes ==
    {[ok |-> TRUE, b |-> [i \in 1..NonceSize |-> 170]],
     [ok |-> TRUE, b |-> [i \in 1..NonceSize |-> 255 - i]],
     [ok |-> FALSE, b |-> Zeros(NonceSize)]}

ConcRandOutcomes ==
    {[ok |-> TRUE, b |-> [i \in 1..NonceSize |-> 170]],
     [ok |-> FALSE, b |-> Zeros(NonceSize)]}

VersionBytes == {0, Version, Version + 1, 255}

NoToken ==
    [valid |-> FALSE, slot |-> "", key |-> <<>>, msg |-> <<>>, nonce |-> <<>>, t |-> <<>>]

\* a token sealed under header v || nonce by somebody who holds key
Craft(v, key, msg, nonce) ==
    LET hdr == <<v>> \o nonce
    IN  hdr \o Seal(key, nonce, msg, hdr)

\* byte strings handed to Verify: the token on the wire, each single-bit change of
\* it, each proper prefix of it, and tokens sealed under any version byte
VerifyArgs(w) ==
    {[kind |-> "crafted", pos |-> v,
      src |-> [valid |-> TRUE, slot |-> "", key |-> k, msg |-> m, nonce |-> x, t |-> Craft(v, k, m, x)],
      c |-> Craft(v, k, m, x)] : v \in VersionBytes, k \in Keys, m \in Msgs, x \in Nonces}
    \cup (IF ~w.valid THEN {[kind |-> "prefix", pos |-> l, src |-> w, c |-> Zeros(l)] : l \in 0..(hdrSize - 1)}
          ELSE {[kind |-> "genuine", pos |-> 0, src |-> w, c |-> w.t]}
               \cup {[kind |-> "flip", pos |-> i, src |-> w, c |-> FlipBit(w.t, i)] :
                        i \in 0..(8 * Len(w.t) - 1)}
               \cup {[kind |-> "prefix", pos |-> l, src |-> w, c |-> Slice(w.t, 0, l)] :
                        l \in 0..(Len(w.t) - 1)})

ConcVerifyArgs(w) ==
    IF ~w.valid THEN {[kind |-> "prefix", pos |-> 0, src |-> w, c |-> <<>>]}
    ELSE {[kind |-> "genuine", pos |-> 0, src |-> w, c |-> w.t],
          [kind |-> "flip", pos |-> 0, src |-> w, c |-> FlipBit(w.t, 0)],
          [kind |-> "prefix", pos |-> NonceSize, src |-> w,
           c |-> Slice(w.t, 0, Min(NonceSize, Len(w.t)))]}

\* ------------------------------------------------------------------- state
VARIABLES
    signers,    \* slot -> the Signer a caller holds a pointer to (NoSigner: nil)
    keyOf,      \* slot -> the key its Signer was constructed from
    frames,     \* goroutine -> its call in progress
    wire        \* the token most recently returned by a Sign call

vars == <<signers, keyOf, frames, wire>>

Idle ==
    [pc |-> "idle", op |-> "", slot |-> "A", key |-> <<>>, msg |-> <<>>,
     given |-> FALSE, nonce |-> <<>>, kind |-> "", pos |-> 0, src |-> NoToken, c |-> <<>>,
     ref |-> "copy", s |-> NoSigner,
     ret |-> <<>>, err |-> NoErr, ok |-> FALSE, panicked |-> FALSE,
     rndErr |-> NoErr, calledRand |-> FALSE, calledSeal |-> FALSE, calledOpen |-> FALSE]

Init ==
    /\ signers = [a \in Slots |-> NoSigner]
    /\ keyOf = [a \in Slots |-> <<>>]
    /\ frames = [g \in Procs |-> Idle]
    /\ wire = NoToken

\* one Signer, already constructed, shared by the goroutines
ConcInit ==
    /\ signers = [a \in Slots |-> IF a = "A" THEN New(K0).s ELSE NoSigner]
    /\ keyOf = [a \in Slots |-> IF a = "A" THEN K0 ELSE <<>>]
    /\ frames = [g \in Procs |-> Idle]
    /\ wire = NoToken

\* ----------------------------------------------------------------- actions
\* a caller runs New(key) and keeps the result in slot a
DoNew(g, a, key) ==
    /\ frames[g].pc = "idle"
    /\ ~signers[a].built
    /\ LET r == New(key)
       IN  /\ signers' = [signers EXCEPT ![a] = r.s]
           /\ keyOf' = [keyOf EXCEPT ![a] = IF r.s.built THEN key ELSE @]
           /\ frames' = [frames EXCEPT ![g] =
                  [Idle EXCEPT !.pc = "done", !.op = "New", !.slot = a, !.key = key,
                               !.err = r.err, !.ok = r.s.built]]
    /\ UNCHANGED wire

\* Sign up to its call of s.sign: the nonce is the caller's, or mknonce's
DoSign(g, a, msgs, nonces, rnds) ==
    /\ frames[g].pc = "idle"
    /\ signers[a].built
    /\ \E msg \in msgs, nonce \in nonces, rnd \in rnds :
         LET r == IF nonce.given THEN [p |-> nonce.b, err |-> NoErr] ELSE mknonce(rnd)
             f == [Idle EXCEPT !.op = "Sign", !.slot = a, !.msg = msg,
                               !.given = nonce.given, !.calledRand = ~nonce.given,
                               !.rndErr = IF nonce.given \/ rnd.ok THEN NoErr ELSE ErrRand]
         IN  frames' = [frames EXCEPT ![g] =
                 IF r.err # NoErr
                 THEN [f EXCEPT !.pc = "done", !.err = r.err]
                 ELSE [f EXCEPT !.pc = "sign", !.nonce = r.p]]
    /\ UNCHANGED <<signers, keyOf, wire>>

\* sign with a pointer receiver: no copy, put works on the shared Signer
sign_entry_ptr(g) ==
    /\ frames[g].pc = "sign"
    /\ frames' = [frames EXCEPT ![g].pc = "put1", ![g].ref = "signer"]
    /\ UNCHANGED <<signers, keyOf, wire>>

\* sign with a pointer receiver that rewinds the shared buffer first (s.n = 0)
sign_entry_reuse(g) ==
    /\ frames[g].pc = "sign"
    /\ frames' = [frames EXCEPT ![g].pc = "put1", ![g].ref = "signer"]
    /\ signers' = [signers EXCEPT ![frames[g].slot].n = 0]
    /\ UNCHANGED <<keyOf, wire>>

\* s.sign is entered: its receiver is a copy of *s, and put works on that copy
sign_entry(g) ==
    /\ frames[g].pc = "sign"
    /\ frames' = [frames EXCEPT ![g].pc = "put1", ![g].ref = "copy",
                                ![g].s = signers[frames[g].slot]]
    /\ UNCHANGED <<signers, keyOf, wire>>

\* the Signer that s.put and s.p[:s.n] inside sign refer to
Receiver(g) ==
    IF frames[g].ref = "copy" THEN frames[g].s ELSE signers[frames[g].slot]

\* one s.put(b) of sign
sign_put(g, from, to, b) ==
    /\ frames[g].pc = from
    /\ LET s2 == put(Receiver(g), b)
       IN  /\ frames' = [frames EXCEPT ![g].pc = to,
                              ![g].s = IF frames[g].ref = "copy" THEN s2 ELSE @]
           /\ signers' = IF frames[g].ref = "copy" THEN signers
                         ELSE [signers EXCEPT ![frames[g].slot] = s2]
    /\ UNCHANGED <<keyOf, wire>>

sign_put_version(g) == sign_put(g, "put1", "put2", <<Version>>)

sign_put_nonce(g) == sign_put(g, "put2", "seal", frames[g].nonce)

\* sign sealing without associated data
sign_seal_noad(g) ==
    /\ frames[g].pc = "seal"
    /\ LET s == frames[g].s
           hdr == Slice(s.p, 0, s.n)
           f == frames[g]
       IN  frames' = [frames EXCEPT ![g] =
               IF SealPanics(f.nonce)
               THEN [f EXCEPT !.pc = "done", !.panicked = TRUE]
               ELSE [f EXCEPT !.pc = "done", !.calledSeal = TRUE,
                              !.ret = hdr \o Seal(s.aead, f.nonce, f.msg, <<>>)]]
    /\ UNCHANGED <<signers, keyOf, wire>>

\* append(s.p[:s.n], s.aead.Seal(nil, nonce, msg, s.p[:s.n])...), returned by Sign
sign_seal(g) ==
    /\ frames[g].pc = "seal"
    /\ LET s == Receiver(g)
           hdr == Slice(s.p, 0, s.n)
           f == frames[g]
       IN  frames' = [frames EXCEPT ![g] =
               IF SealPanics(f.nonce)
               THEN [f EXCEPT !.pc = "done", !.panicked = TRUE]
               ELSE [f EXCEPT !.pc = "done", !.calledSeal = TRUE,
                              !.ret = hdr \o Seal(s.aead, f.nonce, f.msg, hdr)]]
    /\ UNCHANGED <<signers, keyOf, wire>>

\* a caller runs Verify on one of the byte strings args
DoVerify(g, a, args) ==
    /\ frames[g].pc = "idle"
    /\ signers[a].built
    /\ \E arg \in args :
         LET r == Verify(signers[a], arg.c)
         IN  frames' = [frames EXCEPT ![g] =
                 [Idle EXCEPT !.pc = "done", !.op = "Verify", !.slot = a,
                              !.kind = arg.kind, !.pos = arg.pos, !.src = arg.src, !.c = arg.c,
                              !.ret = r.msg, !.err = r.err, !.calledOpen = r.opened]]
    /\ UNCHANGED <<signers, keyOf, wire>>

\* the call returns; a token that Sign returned goes out on the wire
Return(g) ==
    /\ frames[g].pc = "done"
    /\ LET f == frames[g]
       IN  wire' = IF f.op = "Sign" /\ f.err = NoErr /\ ~f.panicked
                   THEN [valid |-> TRUE, slot |-> f.slot, key |-> keyOf[f.slot], msg |-> f.msg,
                         nonce |-> f.nonce, t |-> f.ret]
                   ELSE wire
    /\ frames' = [frames EXCEPT ![g] = Idle]
    /\ UNCHANGED <<signers, keyOf>>

\* one caller, every input
Next ==
    \E a \in Slots :
        \/ \E key \in KeyArgs : DoNew(1, a, key)
        \/ DoSign(1, a, Msgs, NonceArgs, RandOutcomes)
        \/ sign_entry(1)
        \/ sign_put_version(1)
        \/ sign_put_nonce(1)
        \/ sign_seal(1)
        \/ DoVerify(1, a, VerifyArgs(wire))
        \/ Return(1)

Spec == Init /\ [][Next]_vars

\* NumProcs goroutines on one shared Signer
ConcNext ==
    \E g \in Procs :
        \/ DoSign(g, "A", ConcMsgs, ConcNonceArgs, ConcRandOutcomes)
        \/ sign_entry(g)
        \/ sign_put_version(g)
        \/ sign_put_nonce(g)
        \/ sign_seal(g)
        \/ DoVerify(g, "A", ConcVerifyArgs(wire))
        \/ Return(g)

ConcSpec == ConcInit /\ [][ConcNext]_vars

\* ------------------------------------------------------------------ claims
Done(g, op) == frames[g].pc = "done" /\ frames[g].op = op

\* a Sign call that returned a token
Signed(g) == Done(g, "Sign") /\ frames[g].err = NoErr /\ ~frames[g].panicked

\* a Verify call refused its input as not authentic, returning nothing
Refused(g) == frames[g].err = ErrOpen /\ frames[g].ret = <<>>

\* C1 (round trip): Verify of a token that Sign returned, on a Signer built from
\* the key the token was signed under, succeeds and returns exactly the message
\* that was signed, for every message and every 24-byte nonce, the caller's or
\* the CSPRNG's.
C1_RoundTrip ==
    \A g \in Procs :
        (Done(g, "Verify") /\ frames[g].kind = "genuine"
            /\ keyOf[frames[g].slot] = frames[g].src.key)
        => (frames[g].err = NoErr /\ frames[g].ret = frames[g].src.msg)

\* the empty message, signed under a nonce drawn from the CSPRNG, comes back
C1_Witness ==
    \E g \in Procs :
        /\ Done(g, "Verify") /\ frames[g].kind = "genuine"
        /\ keyOf[frames[g].slot] = frames[g].src.key
        /\ frames[g].src.msg = <<>> /\ frames[g].src.nonce \notin Nonces
        /\ frames[g].err = NoErr /\ frames[g].ret = <<>>

\* C2 (tamper detection): Verify of a token that Sign returned with exactly one
\* bit inverted, at any position of the version byte, the nonce, the ciphertext
\* or the tag, on a Signer of the signing key, fails with the AEAD's
\* authentication error and returns no message.
C2_TamperDetected ==
    \A g \in Procs :
        (Done(g, "Verify") /\ frames[g].kind = "flip"
            /\ keyOf[frames[g].slot] = frames[g].src.key)
        => (Refused(g) /\ frames[g].calledOpen)

\* a bit of the version byte was inverted and the token refused
C2_Witness ==
    \E g \in Procs :
        /\ Done(g, "Verify") /\ frames[g].kind = "flip" /\ frames[g].pos < 8
        /\ frames[g].c[1] # Version
        /\ keyOf[frames[g].slot] = frames[g].src.key
        /\ Refused(g)

\* C3 (concurrent isolation): while goroutines run Sign and Verify on one shared
\* Signer, the shared Signer's n and p stay as constructed; a sign in progress
\* holds in its own copy exactly the part of its own header it has put so far;
\* and every finished call has the result it has when run alone on a fresh Signer.
C3_Isolation ==
    /\ \A a \in Slots : signers[a].n = 0 /\ signers[a].p = Zeros(hdrSize)
    /\ \A g \in Procs :
        LET f == frames[g]
            s == IF f.ref = "copy" THEN f.s ELSE signers[f.slot]
        IN  /\ f.pc \in {"put1", "put2", "seal"} =>
                /\ f.ref = "copy"
                /\ s.n = (CASE f.pc = "put1" -> 0 [] f.pc = "put2" -> 1 [] OTHER -> hdrSize)
                /\ Slice(s.p, 0, s.n) = Slice(<<Version>> \o f.nonce, 0, s.n)
            /\ Signed(g) => f.ret = sign(New(keyOf[f.slot]).s, f.msg, f.nonce)
            /\ Done(g, "Verify") =>
                LET r == Verify(New(keyOf[f.slot]).s, f.c)
                IN  f.ret = r.msg /\ f.err = r.err

\* two goroutines are inside sign at once, under different nonces
C3_Witness ==
    /\ frames[1].pc = "seal" /\ frames[2].pc = "put2"
    /\ frames[1].slot = frames[2].slot
    /\ frames[1].nonce # frames[2].nonce

\* C4 (wrong key rejection): Verify of a token that Sign returned on a Signer
\* built from another key fails with the authentication error and returns no
\* message; and whenever Verify returns a message, its input is a header followed
\* by that message sealed under the verifying Signer's own key.
C4_WrongKey ==
    \A g \in Procs :
        LET f == frames[g]
        IN  /\ (Done(g, "Verify") /\ f.kind = "genuine" /\ keyOf[f.slot] # f.src.key)
                => Refused(g)
            /\ (Done(g, "Verify") /\ f.err = NoErr)
                => /\ Len(f.c) >= hdrSize
                   /\ f.c = Craft(f.c[1], keyOf[f.slot], f.ret, Slice(f.c, 1, hdrSize))

\* a token signed on one Signer was refused by a Signer built from another key
C4_Witness ==
    \E g \in Procs :
        /\ Done(g, "Verify") /\ frames[g].kind = "genuine"
        /\ frames[g].src.slot # frames[g].slot
        /\ keyOf[frames[g].slot] # frames[g].src.key
        /\ Refused(g)

\* C5 (short input rejection): Verify of an input of 0 to 24 bytes fails with
\* ErrShort, returns no message and does not call the AEAD's Open.
C5_ShortInput ==
    \A g \in Procs :
        (Done(g, "Verify") /\ Len(frames[g].c) < hdrSize)
        => (frames[g].err = ErrShort /\ frames[g].ret = <<>> /\ ~frames[g].calledOpen)

\* the first 24 bytes of a token were refused as too short
C5_Witness ==
    \E g \in Procs :
        /\ Done(g, "Verify") /\ Len(frames[g].c) = hdrSize - 1
        /\ frames[g].src.valid
        /\ frames[g].err = ErrShort

\* C6 (key length validation): New returns a Signer exactly for a 32-byte key,
\* and for a key of any other length it returns no Signer and the package's
\* key length error, ErrKeyLen.
C6_KeyLength ==
    \A g \in Procs :
        Done(g, "New") =>
            /\ frames[g].ok <=> Len(frames[g].key) = KeySize
            /\ frames[g].ok => frames[g].err = NoErr
            /\ ~frames[g].ok => frames[g].err = ErrKeyLen

\* C6, the part the code keeps: New returns a Signer exactly for a 32-byte key,
\* and otherwise no Signer and the error of the cipher's constructor.
C6_SignerIffKeySize ==
    \A g \in Procs :
        Done(g, "New") =>
            /\ frames[g].ok <=> Len(frames[g].key) = KeySize
            /\ frames[g].ok <=> frames[g].err = NoErr
            /\ ~frames[g].ok => (frames[g].err = ErrBadKeyLength /\ ~signers[frames[g].slot].built)

\* C7 (wire format): a token that Sign returned is 25 + len(msg) + 16 bytes long,
\* starts with the version tag 'A', carries in bytes 1..24 the nonce it was sealed
\* under, and from offset 25 on is the AEAD's Seal of the message under that nonce
\* and the Signer's key with the token's first 25 bytes as associated data.
C7_WireFormat ==
    \A g \in Procs :
        Signed(g) =>
            LET f == frames[g]
            IN  /\ Len(f.nonce) = NonceSize
                /\ Len(f.ret) = hdrSize + Len(f.msg) + TagSize
                /\ f.ret[1] = Version
                /\ Slice(f.ret, 1, hdrSize) = f.nonce
                /\ Slice(f.ret, hdrSize, Len(f.ret))
                     = Seal(keyOf[f.slot], f.nonce, f.msg, Slice(f.ret, 0, hdrSize))

\* a non-empty message was signed under a nonce the caller supplied
C7_Witness ==
    \E g \in Procs :
        /\ Signed(g) /\ frames[g].given
        /\ frames[g].msg # <<>> /\ frames[g].nonce = N1
        /\ Len(frames[g].ret) = hdrSize + Len(frames[g].msg) + TagSize

\* C8 (determinism under an explicit nonce): Sign calls on one Signer with the
\* same message and the same supplied nonce return the same token, whether they
\* run at once or one long after the other, whatever calls ran in between.
C8_Deterministic ==
    \A g \in Procs :
        (Signed(g) /\ frames[g].given) =>
            /\ \A h \in Procs :
                  (Signed(h) /\ frames[h].given /\ frames[h].slot = frames[g].slot
                      /\ frames[h].msg = frames[g].msg /\ frames[h].nonce = frames[g].nonce)
                  => frames[h].ret = frames[g].ret
            /\ (wire.valid /\ wire.slot = frames[g].slot
                  /\ wire.msg = frames[g].msg /\ wire.nonce = frames[g].nonce)
               => frames[g].ret = wire.t

\* two goroutines signed the same message under the same supplied nonce, after a
\* token of an earlier such call had gone out
C8_Witness ==
    /\ Signed(1) /\ Signed(2) /\ frames[1].given /\ frames[2].given
    /\ frames[1].msg = frames[2].msg /\ frames[1].nonce = frames[2].nonce
    /\ frames[1].msg # <<>>
    /\ wire.valid /\ wire.msg = frames[1].msg /\ wire.nonce = frames[1].nonce
    /\ frames[1].ret = frames[2].ret

\* C9 (random source failure): Sign returns an error exactly when no nonce was
\* supplied and rand.Read failed; the error is rand.Read's, no token is returned
\* and Seal is not called; with a supplied nonce rand.Read is not called and Sign
\* returns no error.
C9_RandFailure ==
    \A g \in Procs :
        Done(g, "Sign") =>
            LET f == frames[g]
            IN  /\ f.err # NoErr <=> (~f.given /\ f.rndErr # NoErr)
                /\ f.err = f.rndErr
                /\ f.err # NoErr => (f.ret = <<>> /\ ~f.calledSeal /\ f.calledRand)
                /\ f.given => (~f.calledRand /\ f.err = NoErr)

\* Sign without a nonce ended with the random source's error
C9_Witness ==
    \E g \in Procs :
        /\ Done(g, "Sign") /\ ~frames[g].given
        /\ frames[g].rndErr = ErrRand /\ frames[g].err = ErrRand
        /\ frames[g].ret = <<>>

\* C10 (version byte not enforced): a token v || nonce || Seal(key, nonce, msg,
\* ad = v || nonce) is accepted by a Signer holding key and yields msg, for every
\* version byte v, 'A' or not.
C10_VersionNotEnforced ==
    \A g \in Procs :
        (Done(g, "Verify") /\ frames[g].kind = "crafted"
            /\ keyOf[frames[g].slot] = frames[g].src.key)
        => (frames[g].err = NoErr /\ frames[g].ret = frames[g].src.msg)

\* a token sealed under a version byte other than 'A' was accepted
C10_Witness ==
    \E g \in Procs :
        /\ Done(g, "Verify") /\ frames[g].kind = "crafted"
        /\ frames[g].c[1] # Version
        /\ keyOf[frames[g].slot] = frames[g].src.key
        /\ frames[g].src.msg # <<>>
        /\ frames[g].err = NoErr /\ frames[g].ret = frames[g].src.msg

====
